---- MODULE Spec2Model ----
(***************************************************************************)
(* A model of the Select3 base class (src/src/select3-base.js): the        *)
(* value/data reconciler, the search dispatcher, the dropdown coordinator  *)
(* and the option manager.  JavaScript values are tagged records, so that  *)
(* $.type(), strict equality and truthiness are computed and not assumed.  *)
(***************************************************************************)
EXTENDS Integers, Sequences, FiniteSets, TLC

(* Bounds of the model. *)
MaxPending == 2
MaxSessions == 3

VARIABLES
    multiple,      \* which implementation was constructed (options.multiple)
    options,       \* this.options: the options object, a sequence of <<key, value>>
    items,         \* this.items: null or the array of processed local items
    matcher,       \* this.matcher
    _data,         \* this._data
    _value,        \* this._value
    dropdown,      \* this.dropdown: null or the session object
    results,       \* this.results
    pendingInit,   \* initSelection callbacks handed out and not yet invoked
    pendingQuery,  \* query callbacks handed out and not yet invoked
    created,       \* number of session objects constructed so far
    live,          \* the session objects that exist and were not dismissed
    shown,         \* per live session: the last showResults() it received
    _events,       \* this._events: the listeners delegateEvents() registered
    listeners,     \* the instance's listeners attached to the element
    effects,       \* what the last operation emitted or called, in order
    last           \* the last operation and its arguments

vars == <<multiple, options, items, matcher, _data, _value, dropdown, results,
          pendingInit, pendingQuery, created, live, shown, _events, listeners,
          effects, last>>

configVars == <<multiple, options, items, matcher>>
valueVars == <<_data, _value, pendingInit>>
sessionVars == <<dropdown, results, pendingQuery, created, live, shown>>
bindingVars == <<_events, listeners>>

-----------------------------------------------------------------------------
(* JavaScript values.  Strings are sequences of characters; a number is    *)
(* kept by its decimal digits, so that '' + id is a real conversion.  An   *)
(* array carries the identity of the array object (ref): === on arrays     *)
(* compares identities.  ref 0 marks an array whose identity the code      *)
(* never compares.                                                         *)
Null == [type |-> "null"]
Undefined == [type |-> "undefined"]
Bool(b) == [type |-> "boolean", b |-> b]
Num(digits) == [type |-> "number", s |-> digits]
Str(chars) == [type |-> "string", s |-> chars]
Fn(name) == [type |-> "function", name |-> name]
Item(id, text) == [type |-> "object", id |-> id, text |-> text]
Arr(ref, elems) == [type |-> "array", ref |-> ref, elems |-> elems]
Error(msg) == [type |-> "error", msg |-> msg]

Type(v) == v.type
IsError(v) == v.type = "error"

Truthy(v) ==
    CASE v.type \in {"null", "undefined"} -> FALSE
      [] v.type = "boolean" -> v.b
      [] v.type = "number" -> v.s # <<"0">>
      [] v.type = "string" -> v.s # <<>>
      [] OTHER -> TRUE

(* a === b *)
StrictEq(a, b) ==
    IF a.type = "array" /\ b.type = "array" THEN a.ref = b.ref ELSE a = b

(* '' + v for an id or null *)
ToStr(v) ==
    CASE v.type \in {"number", "string"} -> Str(v.s)
      [] v.type = "null" -> Str(<<"n", "u", "l", "l">>)
      [] OTHER -> Str(<<"?">>)

(* v.name: undefined on anything that has no such property *)
Prop(v, name) ==
    IF v.type = "object" /\ name \in DOMAIN v THEN v[name] ELSE Undefined

(* array.map(f) where f may throw: the mapped elements, and the first     *)
(* error raised among them (map stops there), if any                       *)
HasError(elems) == \E i \in 1..Len(elems) : IsError(elems[i])
FirstError(elems) ==
    elems[CHOOSE i \in 1..Len(elems) :
            IsError(elems[i]) /\ \A j \in 1..(i - 1) : ~IsError(elems[j])]

-----------------------------------------------------------------------------
(* Static helpers of Select3. *)

isValidId(id) == Type(id) \in {"number", "string"}

processItem(item) ==
    IF isValidId(item) THEN Item(item, ToStr(item))
    ELSE IF Truthy(item) /\ isValidId(Prop(item, "id")) THEN item
    ELSE Error("invalid item")

(* the loop of findIndexById: the first index (from 0) whose id === id *)
findIndexById(array, id) ==
    LET hits == {i \in 1..Len(array.elems) : StrictEq(Prop(array.elems[i], "id"), id)}
    IN IF hits = {} THEN -1
       ELSE (CHOOSE i \in hits : \A j \in hits : i <= j) - 1

(* findById with the test on the index off by one: index > 0 *)
findByIdSkipsFirst(array, id) ==
    LET index == findIndexById(array, id)
    IN IF index > 0 THEN array.elems[index + 1] ELSE Null

findById(array, id) ==
    LET index == findIndexById(array, id)
    IN IF index > -1 THEN array.elems[index + 1] ELSE Null

validateItem(item) ==
    IF Truthy(item) /\ isValidId(Prop(item, "id")) /\ Type(Prop(item, "text")) = "string"
    THEN item
    ELSE Error("Item should have id (number or string) and text (string) properties")

(* getItemForId falling back to the ID as text when the lookup finds nothing *)
getItemForIdFabricates(id) ==
    IF Truthy(items) /\ findById(items, id) # Null THEN findById(items, id)
    ELSE Item(id, ToStr(id))

getItemForId(id) ==
    IF Truthy(items) THEN findById(items, id)
    ELSE Item(id, ToStr(id))

-----------------------------------------------------------------------------
(* The option manager. *)

(* options[key]: undefined when the object has no such key *)
OptGet(opts, key) ==
    IF \E k \in 1..Len(opts) : opts[k][1] = key
    THEN opts[CHOOSE k \in 1..Len(opts) : opts[k][1] = key][2]
    ELSE Undefined

(* The body of the $.each() callback of setOptions for the k-th key, then   *)
(* the following keys.  st holds this.items, this.matcher and the error      *)
(* thrown, if any; a throw ends the iteration with what was assigned so far. *)
RECURSIVE eachOption(_, _, _)
eachOption(opts, k, st) ==
    IF k > Len(opts) THEN st
    ELSE LET key == opts[k][1]
             val == opts[k][2]
             throw(msg) == [st EXCEPT !.error = Error(msg)]
             next == eachOption(opts, k + 1, st)
         IN CASE key = "closeOnSelect" ->
                   IF Type(val) # "boolean" THEN throw("closeOnSelect must be a boolean")
                   ELSE next
              [] key = "initSelection" ->
                   IF Type(val) # "function" THEN throw("initSelection must be a function")
                   ELSE next
              [] key = "items" ->
                   IF Type(val) = "array"
                   THEN LET mapped == [i \in 1..Len(val.elems) |-> processItem(val.elems[i])]
                        IN IF HasError(mapped) THEN [st EXCEPT !.error = FirstError(mapped)]
                           ELSE eachOption(opts, k + 1, [st EXCEPT !.items = Arr(0, mapped)])
                   ELSE throw("items must be an array")
              [] key = "matcher" ->
                   IF Type(val) # "function" THEN throw("matcher must be a function")
                   ELSE eachOption(opts, k + 1, [st EXCEPT !.matcher = val])
              [] key = "placeholder" ->
                   IF Type(val) # "string" THEN throw("placeholder must be a string")
                   ELSE next
              [] key = "query" ->
                   IF Type(val) # "function" THEN throw("query must be a function")
                   ELSE next
              [] OTHER -> next

(* setOptions() whose iteration ends after the first key *)
setOptionsResultFirstKeyOnly(opts, curItems, curMatcher) ==
    LET st == eachOption(IF opts = <<>> THEN opts ELSE <<opts[1]>>, 1,
                  [items |-> curItems, matcher |-> curMatcher, error |-> Null])
    IN [options |-> opts, items |-> st.items, matcher |-> st.matcher, error |-> st.error]

(* setOptions(opts) on an instance holding curItems and curMatcher: the new *)
(* this.options, this.items, this.matcher, and the error thrown (or null)   *)
setOptionsResult(opts, curItems, curMatcher) ==
    LET st == eachOption(opts, 1,
                  [items |-> curItems, matcher |-> curMatcher, error |-> Null])
    IN [options |-> opts, items |-> st.items, matcher |-> st.matcher, error |-> st.error]

-----------------------------------------------------------------------------
(* The hooks the Single and Multiple implementations supply. *)

(* the identity of a newly allocated array: one that no reference held by *)
(* the instance or by a callback has                                       *)
FreshRef ==
    LET used == (IF _value.type = "array" THEN {_value.ref} ELSE {})
                \cup {pendingInit[i].newValue.ref :
                        i \in {j \in 1..Len(pendingInit) : pendingInit[j].newValue.type = "array"}}
    IN CHOOSE n \in 10..(12 + Len(pendingInit)) :
          n \notin used /\ \A m \in 10..(n - 1) : m \in used

validateValue(newValue) ==
    IF multiple
    THEN IF Type(newValue) = "null" THEN Arr(FreshRef, <<>>)
         ELSE IF Type(newValue) = "array" /\ \A i \in 1..Len(newValue.elems) : isValidId(newValue.elems[i])
         THEN newValue
         ELSE Error("Value for MultiSelect3 instance should be an array of IDs")
    ELSE IF Type(newValue) = "null" \/ isValidId(newValue) THEN newValue
         ELSE Error("Value for SingleSelect3 instance should be a valid ID or null")

validateData(newData) ==
    IF multiple
    THEN IF Type(newData) = "null" THEN Arr(0, <<>>)
         ELSE IF Type(newData) = "array"
         THEN LET mapped == [i \in 1..Len(newData.elems) |-> validateItem(newData.elems[i])]
              IN IF HasError(mapped) THEN FirstError(mapped) ELSE Arr(0, mapped)
         ELSE Error("Data for MultiSelect3 instance should be an array")
    ELSE IF Type(newData) = "null" THEN newData ELSE validateItem(newData)

getValueForData(newData) ==
    IF multiple
    THEN Arr(FreshRef, [i \in 1..Len(newData.elems) |-> newData.elems[i].id])
    ELSE IF Truthy(newData) THEN newData.id ELSE Null

getDataForValue(newValue) ==
    IF multiple
    THEN Arr(0, [i \in 1..Len(newValue.elems) |-> getItemForId(newValue.elems[i])])
    ELSE IF Type(newValue) = "null" THEN Null ELSE getItemForId(newValue)

(* project(data, 'id'), and the ids a value holds: null or one id in the  *)
(* single mode, the sequence of ids in the multiple mode                   *)
DataIds(d) ==
    IF Type(d) = "array" THEN [i \in 1..Len(d.elems) |-> Prop(d.elems[i], "id")]
    ELSE IF Type(d) = "null" THEN Null ELSE Prop(d, "id")
ValueIds(v) == IF Type(v) = "array" THEN v.elems ELSE v

-----------------------------------------------------------------------------
(* What the callers and the collaborators may pass in. *)
N1 == Num(<<"1">>)
N2 == Num(<<"2">>)
S1 == Str(<<"1">>)
TextA == Str(<<"A", "b">>)
TextB == Str(<<"b">>)

ItemsDistinct == Arr(0, <<Item(N1, TextA), Item(S1, TextB)>>)
ItemsDuplicate == Arr(0, <<Item(N1, TextA), Item(N1, TextB)>>)
ItemsBare == Arr(0, <<N1, S1>>)
Element == <<"element", [type |-> "object"]>>

ValueInputs ==
    IF multiple
    THEN {Null, Arr(1, <<N1>>), Arr(2, <<S1>>), Arr(3, <<N1>>), Arr(4, <<S1, N1>>),
          Arr(5, <<N1, N2>>), N1}
    ELSE {Null, N1, S1, N2, Bool(TRUE)}

DataInputs ==
    IF multiple
    THEN {Null, Arr(0, <<Item(N1, TextA)>>), Arr(0, <<Item(N1, TextB)>>),
          Arr(0, <<Item(S1, TextB), Item(N1, TextA)>>),
          Arr(0, <<Item(N1, TextA), Item(N2, N2)>>), Item(N1, TextA)}
    ELSE {Null, Item(N1, TextA), Item(N1, TextB), Item(S1, TextB), Item(N2, N2),
          Item(Bool(TRUE), TextA)}

-----------------------------------------------------------------------------
(* The value/data reconciler. *)

Event(name, data) == [e |-> "event", name |-> name, data |-> data]
Thrown(error) == [e |-> "throw", error |-> error]

(* triggerChange() not putting the value into the event *)
triggerChangeWithoutVal(val) == Event("change", [val |-> Undefined])

(* triggerChange() once this._value holds val *)
triggerChange(val) == Event("change", [val |-> val])

(* every callback in flight was handed out before the call being made,     *)
(* which is a call of value() or of data()                                  *)
Supersede(pending, call) ==
    [i \in 1..Len(pending) |-> [pending[i] EXCEPT !.superseded = TRUE, !.by = call]]

RemoveAt(seq, i) == SubSeq(seq, 1, i - 1) \o SubSeq(seq, i + 1, Len(seq))

(* data() leaving this._value as it is *)
dataKeepsValue(newData) == _value

(* what data() assigns to this._value once newData is validated *)
dataSetsValue(newData) == getValueForData(newData)

(* data(newData) *)
data(newData) ==
    LET validated == validateData(newData)
    IN /\ last' = [op |-> "data", arg |-> newData, ok |-> ~IsError(validated),
                   inFlight |-> Len(pendingInit)]
       /\ IF IsError(validated)
          THEN /\ effects' = <<Thrown(validated)>>
               /\ UNCHANGED valueVars
          ELSE /\ _data' = validated
               /\ _value' = dataSetsValue(validated)
               /\ effects' = <<triggerChange(_value')>>
               /\ pendingInit' = Supersede(pendingInit, "data")
       /\ UNCHANGED <<configVars, bindingVars, sessionVars>>

(* the callback installing whatever it is given *)
alwaysCurrent(newValue) == TRUE

(* the test of the callback on the value it was created for *)
stillCurrent(newValue) == StrictEq(_value, newValue)

(* the callback value() hands to initSelection, invoked with resolved *)
initSelectionCallback(i, resolved) ==
    LET entry == pendingInit[i]
        passes == stillCurrent(entry.newValue)
        validated == validateData(resolved)
    IN /\ pendingInit' = RemoveAt(pendingInit, i)
       /\ last' = [op |-> "initSelectionCallback", newValue |-> entry.newValue,
                   superseded |-> entry.superseded, by |-> entry.by, arg |-> resolved,
                   installed |-> passes /\ ~IsError(validated)]
       /\ IF passes
          THEN IF IsError(validated)
               THEN /\ effects' = <<Thrown(validated)>>
                    /\ UNCHANGED _data
               ELSE /\ _data' = validated
                    /\ effects' = <<triggerChange(_value)>>
          ELSE /\ effects' = <<>>
               /\ UNCHANGED _data
       /\ UNCHANGED <<_value, configVars, bindingVars, sessionVars>>

(* value(newValue) *)
value(newValue) ==
    LET validated == validateValue(newValue)
        async == Truthy(OptGet(options, "initSelection"))
    IN /\ async => Len(pendingInit) < MaxPending
       /\ last' = [op |-> "value", arg |-> newValue, ok |-> ~IsError(validated),
                   async |-> async]
       /\ IF IsError(validated)
          THEN /\ effects' = <<Thrown(validated)>>
               /\ UNCHANGED valueVars
          ELSE /\ _value' = validated
               /\ IF async
                  THEN /\ pendingInit' = Append(Supersede(pendingInit, "value"),
                                            [newValue |-> validated, superseded |-> FALSE, by |-> "none"])
                       /\ effects' = <<[e |-> "initSelection", value |-> validated]>>
                       /\ UNCHANGED _data
                  ELSE /\ _data' = getDataForValue(validated)
                       /\ effects' = <<triggerChange(validated)>>
                       /\ pendingInit' = Supersede(pendingInit, "value")
       /\ UNCHANGED <<configVars, bindingVars, sessionVars>>

-----------------------------------------------------------------------------
(* The search dispatcher and the dropdown coordinator. *)

LowerChar(c) ==
    CASE c = "A" -> "a"
      [] c = "B" -> "b"
      [] OTHER -> c

(* Select3.transformText: string.toLowerCase() *)
transformText(string) == Str([i \in 1..Len(string.s) |-> LowerChar(string.s[i])])

(* haystack.indexOf(needle) > -1 *)
Contains(haystack, needle) ==
    \E k \in 0..(Len(haystack.s) - Len(needle.s)) :
        SubSeq(haystack.s, k + 1, k + Len(needle.s)) = needle.s

(* Select3.matcher, the default of this.matcher *)
DefaultMatcher == Fn("Select3.matcher")
defaultMatcher(term, text) == Contains(transformText(text), term)

(* a matcher supplied with the options: exact comparison with the term *)
CallMatcher(m, term, text) ==
    IF m = DefaultMatcher THEN defaultMatcher(term, text) ELSE text = term

(* filterResults of the base class, and the override of the Multiple      *)
(* implementation, which leaves out the items already selected             *)
filterResults(res) == res

(* array.filter: the elements whose index is in keep, in order *)
RECURSIVE FilterElems(_, _, _)
FilterElems(elems, keep, i) ==
    IF i > Len(elems) THEN <<>>
    ELSE (IF i \in keep THEN <<elems[i]>> ELSE <<>>) \o FilterElems(elems, keep, i + 1)

multipleFilterResults(res) ==
    Arr(0, FilterElems(res.elems,
             {i \in 1..Len(res.elems) :
                 findIndexById(_data, Prop(res.elems[i], "id")) = -1}, 1))

(* _setResults() showing the results as they are *)
unfilteredResults(res) == res

(* this.filterResults(results): the implementation's override, if any *)
thisFilterResults(res) == IF multiple THEN multipleFilterResults(res) ELSE filterResults(res)

Session(n) == [type |-> "object", session |-> n]

(* _setResults(res, opts) with this.dropdown = dd: the new this.results,   *)
(* what each session shows, and the calls made                             *)
setResults(res, opts, dd, sh) ==
    [results |-> res,
     shown |-> IF Truthy(dd)
               THEN [sh EXCEPT ![dd] = [results |-> thisFilterResults(res), options |-> opts]]
               ELSE sh,
     effects |-> IF Truthy(dd)
                 THEN <<[e |-> "showResults", session |-> dd,
                         results |-> thisFilterResults(res), options |-> opts]>>
                 ELSE <<>>]

(* every query callback in flight belongs to an earlier search *)
Outdate(pending) ==
    [i \in 1..Len(pending) |-> [pending[i] EXCEPT !.latest = FALSE]]

NoOptions == [type |-> "object"]

(* search() handing the term to the matcher as it was given *)
matcherTermRaw(term) == term

(* the term search() hands to the matcher *)
matcherTerm(term) == transformText(term)

(* search() handing the transformed term to query *)
queryTermTransformed(term) == transformText(term)

(* the term search() hands to query *)
queryTerm(term) == term

(* search() emptying the results when nothing is configured *)
searchUnconfiguredClears(dd, sh) == setResults(Arr(0, <<>>), NoOptions, dd, sh)

(* search() with neither this.items nor options.query: no branch is taken  *)
searchUnconfigured(dd, sh) == [results |-> results, shown |-> sh, effects |-> <<>>]

(* search(term) with this.dropdown = dd; a callback handed to query is kept *)
(* with the session that was open when it was handed out                    *)
searchResult(term, dd, sh) ==
    IF Truthy(items)
    THEN LET t == matcherTerm(term)
             kept == {i \in 1..Len(items.elems) :
                         CallMatcher(matcher, t, Prop(items.elems[i], "text"))}
             set == setResults(Arr(0, FilterElems(items.elems, kept, 1)), NoOptions, dd, sh)
         IN [results |-> set.results, shown |-> set.shown, effects |-> set.effects,
             pendingQuery |-> pendingQuery]
    ELSE IF Truthy(OptGet(options, "query"))
    THEN [results |-> results, shown |-> sh,
          effects |-> <<[e |-> "query", term |-> queryTerm(term), offset |-> 0]>>,
          pendingQuery |-> Append(Outdate(pendingQuery),
                                  [term |-> queryTerm(term), latest |-> TRUE, session |-> dd])]
    ELSE LET set == searchUnconfigured(dd, sh)
         IN [results |-> set.results, shown |-> set.shown, effects |-> set.effects,
             pendingQuery |-> pendingQuery]

CanSearch ==
    (~Truthy(items) /\ Truthy(OptGet(options, "query"))) => Len(pendingQuery) < MaxPending

(* search(term) *)
search(term) ==
    LET r == searchResult(term, dropdown, shown)
    IN /\ CanSearch
       /\ results' = r.results
       /\ shown' = r.shown
       /\ pendingQuery' = r.pendingQuery
       /\ effects' = r.effects
       /\ last' = [op |-> "search", arg |-> term]
       /\ UNCHANGED <<dropdown, created, live, configVars, bindingVars, valueVars>>

(* the callback emptying the results before it throws *)
rejectedClearsResults(dd, sh) == setResults(Arr(0, <<>>), NoOptions, dd, sh)

(* the callback throwing: _setResults is not reached *)
rejected(dd, sh) == [results |-> results, shown |-> sh, effects |-> <<>>]

(* the callback search() hands to query, invoked with response *)
queryCallback(i, response) ==
    LET entry == pendingQuery[i]
        res == Prop(response, "results")
        mapped == [k \in 1..Len(res.elems) |-> processItem(res.elems[k])]
        error == IF Truthy(response) /\ Truthy(res)
                 THEN IF Type(res) = "array"
                      THEN IF HasError(mapped) THEN FirstError(mapped) ELSE Null
                      ELSE Error("results must be an array")
                 ELSE Error("callback must be passed a response object")
        set == setResults(Arr(0, mapped), [type |-> "object",
                              hasMore |-> Bool(Truthy(Prop(response, "more")))],
                          dropdown, shown)
    IN /\ pendingQuery' = RemoveAt(pendingQuery, i)
       /\ last' = [op |-> "queryCallback", term |-> entry.term, latest |-> entry.latest,
                   session |-> entry.session, arg |-> response, ok |-> ~IsError(error)]
       /\ IF IsError(error)
          THEN /\ effects' = rejected(dropdown, shown).effects \o <<Thrown(error)>>
               /\ results' = rejected(dropdown, shown).results
               /\ shown' = rejected(dropdown, shown).shown
          ELSE /\ results' = set.results
               /\ shown' = set.shown
               /\ effects' = set.effects
       /\ UNCHANGED <<dropdown, created, live, configVars, bindingVars, valueVars>>

(* open() calling search('') before the session is constructed *)
openDropdownSearchesFirst(prevented) ==
    LET dd == Session(created + 1)
        r == searchResult(Str(<<>>), dropdown, shown)
    IN /\ created < MaxSessions
       /\ CanSearch
       /\ dropdown' = dd
       /\ created' = created + 1
       /\ live' = live \cup {dd}
       /\ results' = r.results
       /\ shown' = [s \in live \cup {dd} |-> IF s \in live THEN r.shown[s] ELSE Null]
       /\ pendingQuery' = r.pendingQuery
       /\ effects' = <<Event("select3-opening", NoOptions)>> \o r.effects
                        \o <<[e |-> "new Dropdown", session |-> dd]>>
       /\ last' = [op |-> "open", prevented |-> prevented, wasOpen |-> Truthy(dropdown)]
       /\ UNCHANGED <<configVars, bindingVars, valueVars>>

(* open() on a closed instance whose 'select3-opening' is not prevented:  *)
(* the session is constructed, then search('') runs                        *)
openDropdown(prevented) ==
    LET dd == Session(created + 1)
        r == searchResult(Str(<<>>), dd,
                 [s \in live \cup {dd} |-> IF s \in live THEN shown[s] ELSE Null])
    IN /\ created < MaxSessions
       /\ CanSearch
       /\ dropdown' = dd
       /\ created' = created + 1
       /\ live' = live \cup {dd}
       /\ results' = r.results
       /\ shown' = r.shown
       /\ pendingQuery' = r.pendingQuery
       /\ effects' = <<Event("select3-opening", NoOptions),
                       [e |-> "new Dropdown", session |-> dd]>> \o r.effects
       /\ last' = [op |-> "open", prevented |-> prevented, wasOpen |-> Truthy(dropdown)]
       /\ UNCHANGED <<configVars, bindingVars, valueVars>>

(* open() without the test of this.dropdown *)
openAlways(prevented) ==
    IF ~prevented
    THEN openDropdown(prevented)
    ELSE /\ effects' = <<Event("select3-opening", NoOptions)>>
         /\ last' = [op |-> "open", prevented |-> TRUE, wasOpen |-> Truthy(dropdown)]
         /\ UNCHANGED <<sessionVars, configVars, bindingVars, valueVars>>

(* open() without the test of event.isDefaultPrevented() *)
openIgnoringPrevention(prevented) ==
    IF ~Truthy(dropdown)
    THEN openDropdown(prevented)
    ELSE /\ effects' = <<>>
         /\ last' = [op |-> "open", prevented |-> prevented, wasOpen |-> TRUE]
         /\ UNCHANGED <<sessionVars, configVars, bindingVars, valueVars>>

(* open(), the listeners of 'select3-opening' preventing the default or not *)
open(prevented) ==
    IF ~Truthy(dropdown)
    THEN IF ~prevented
         THEN openDropdown(prevented)
         ELSE /\ effects' = <<Event("select3-opening", NoOptions)>>
              /\ last' = [op |-> "open", prevented |-> TRUE, wasOpen |-> FALSE]
              /\ UNCHANGED <<sessionVars, configVars, bindingVars, valueVars>>
    ELSE /\ effects' = <<>>
         /\ last' = [op |-> "open", prevented |-> prevented, wasOpen |-> TRUE]
         /\ UNCHANGED <<sessionVars, configVars, bindingVars, valueVars>>

(* close() dropping the session itself *)
closeClearsDropdown ==
    /\ effects' = IF Truthy(dropdown)
                  THEN <<[e |-> "dropdown.close", session |-> dropdown]>>
                  ELSE <<>>
    /\ last' = [op |-> "close", wasOpen |-> Truthy(dropdown)]
    /\ dropdown' = Null
    /\ UNCHANGED <<results, pendingQuery, created, live, shown, configVars, bindingVars, valueVars>>

(* close() *)
close ==
    /\ effects' = IF Truthy(dropdown)
                  THEN <<[e |-> "dropdown.close", session |-> dropdown]>>
                  ELSE <<>>
    /\ last' = [op |-> "close", wasOpen |-> Truthy(dropdown)]
    /\ UNCHANGED <<sessionVars, configVars, bindingVars, valueVars>>

(* _closed() leaving this.dropdown as it is *)
_closedKeepsDropdown(session) ==
    /\ session \in live
    /\ live' = live \ {session}
    /\ shown' = [s \in live \ {session} |-> shown[s]]
    /\ effects' = <<>>
    /\ last' = [op |-> "_closed", session |-> session]
    /\ UNCHANGED <<dropdown, results, pendingQuery, created, configVars, bindingVars, valueVars>>

(* a session is dismissed and triggers 'select3-close' on the element:     *)
(* _closed() runs, being attached to the element                           *)
_closed(session) ==
    /\ session \in live
    /\ "select3-close" \in listeners
    /\ live' = live \ {session}
    /\ shown' = [s \in live \ {session} |-> shown[s]]
    /\ dropdown' = Null
    /\ effects' = <<>>
    /\ last' = [op |-> "_closed", session |-> session]
    /\ UNCHANGED <<results, pendingQuery, created, configVars, bindingVars, valueVars>>

(* the events map of the implementation: the listeners delegateEvents()   *)
(* attaches and records in this._events                                    *)
events == <<"click", "keyup">>

(* the listeners the constructor attaches to the element itself *)
onElement == {"select3-close"}

(* undelegateEvents(): the listeners left on the element *)
undelegateEvents == listeners \ {_events[i] : i \in 1..Len(_events)}

(* destroy(): the children of the element and its select3 property, which  *)
(* destroy() also clears, are not part of the model                         *)
destroy ==
    /\ listeners' = undelegateEvents
    /\ _events' = <<>>
    /\ effects' = <<>>
    /\ last' = [op |-> "destroy", wasOpen |-> Truthy(dropdown)]
    /\ UNCHANGED <<configVars, valueVars, sessionVars>>

(* setOptions(opts) *)
setOptions(opts) ==
    LET set == setOptionsResult(opts, items, matcher)
    IN /\ options' = set.options
       /\ items' = set.items
       /\ matcher' = set.matcher
       /\ effects' = IF IsError(set.error) THEN <<Thrown(set.error)>> ELSE <<>>
       /\ last' = [op |-> "setOptions", arg |-> opts, ok |-> ~IsError(set.error)]
       /\ UNCHANGED <<multiple, valueVars, sessionVars, bindingVars>>

-----------------------------------------------------------------------------
(* Construction and the specifications. *)

Terms == {Str(<<>>), Str(<<"a">>), Str(<<"B">>)}

Response(res, more) == [type |-> "object", results |-> res, more |-> more]
Responses ==
    {Response(Arr(0, <<Item(N1, TextA)>>), Bool(TRUE)),
     Response(Arr(0, <<N2, Item(S1, TextB)>>), Undefined),
     Response(Arr(0, <<>>), Bool(FALSE)),
     Response(Str(<<"x">>), Undefined),
     [type |-> "object"],
     Undefined}

CustomMatcher == Fn("matcher")
InitSelection == <<"initSelection", Fn("initSelection")>>
Query == <<"query", Fn("query")>>

ValueOptions ==
    {<<Element>>,
     <<Element, <<"items", ItemsDistinct>>>>,
     <<Element, <<"items", ItemsDuplicate>>>>,
     <<Element, <<"items", ItemsBare>>>>,
     <<Element, InitSelection>>,
     <<Element, InitSelection, <<"items", ItemsDistinct>>, Query>>}

AsyncOptions == {o \in ValueOptions : Truthy(OptGet(o, "initSelection"))}

DropdownOptions ==
    {<<Element>>,
     <<Element, <<"items", ItemsDistinct>>>>,
     <<Element, Query>>,
     <<Element, <<"items", ItemsBare>>, Query>>,
     <<Element, <<"items", ItemsDistinct>>, <<"matcher", CustomMatcher>>>>}

(* new Select3(opts) with neither value nor data among the options: the    *)
(* fields are initialised, setOptions(opts) runs, then data(null)           *)
Constructed(opts) ==
    LET set == setOptionsResult(opts, Null, DefaultMatcher)
    IN /\ ~IsError(set.error)
       /\ multiple \in BOOLEAN
       /\ options = set.options
       /\ items = set.items
       /\ matcher = set.matcher
       /\ _data = (IF multiple THEN Arr(0, <<>>) ELSE Null)
       /\ _value = (IF multiple THEN Arr(10, <<>>) ELSE Null)
       /\ dropdown = Null
       /\ results = Arr(0, <<>>)
       /\ pendingInit = <<>>
       /\ pendingQuery = <<>>
       /\ created = 0
       /\ live = {}
       /\ shown = <<>>
       /\ _events = events
       /\ listeners = onElement \cup {events[i] : i \in 1..Len(events)}
       /\ effects = <<triggerChange(_value)>>
       /\ last = [op |-> "new"]

InitValue == \E opts \in ValueOptions : Constructed(opts)
InitAsync == \E opts \in AsyncOptions : Constructed(opts)
InitDropdown == \E opts \in DropdownOptions : Constructed(opts)

NextValue ==
    \/ \E d \in DataInputs : data(d)
    \/ \E v \in ValueInputs : value(v)
    \/ \E i \in 1..Len(pendingInit) : \E d \in DataInputs : initSelectionCallback(i, d)

NextDropdown ==
    \/ \E prevented \in BOOLEAN : open(prevented)
    \/ close
    \/ \E s \in live : _closed(s)
    \/ \E t \in Terms : search(t)
    \/ \E i \in 1..Len(pendingQuery) : \E r \in Responses : queryCallback(i, r)

SpecValue == InitValue /\ [][NextValue]_vars
SpecAsync == InitAsync /\ [][NextValue]_vars
SpecDropdown == InitDropdown /\ [][NextDropdown]_vars

(* new Select3(opts) where opts may hold an initial value or initial data: *)
(* the fields are initialised, setOptions(opts) runs, then value() is      *)
(* called if options.value is truthy and data(options.data || null) if not. *)
(* A constructor that throws leaves no instance.  The array of ids that   *)
(* the multiple mode builds is the first array of the instance.            *)
choosesValue(opts) == Truthy(OptGet(opts, "value"))

ConstructedWith(opts) ==
    LET set == setOptionsResult(opts, Null, DefaultMatcher)
        newValue == OptGet(opts, "value")
        newData == IF Truthy(OptGet(opts, "data")) THEN OptGet(opts, "data") ELSE Null
        async == Truthy(OptGet(opts, "initSelection"))
    IN /\ ~IsError(set.error)
       /\ multiple \in BOOLEAN
       /\ options = set.options
       /\ items = set.items
       /\ matcher = set.matcher
       /\ IF choosesValue(opts)
          THEN /\ ~IsError(validateValue(newValue))
               /\ pendingInit = (IF async
                                 THEN <<[newValue |-> validateValue(newValue),
                                         superseded |-> FALSE, by |-> "none"]>>
                                 ELSE <<>>)
               /\ _value = validateValue(newValue)
               /\ _data = (IF async THEN Undefined ELSE getDataForValue(_value))
               /\ effects = (IF async
                             THEN <<[e |-> "initSelection", value |-> _value]>>
                             ELSE <<triggerChange(_value)>>)
          ELSE /\ ~IsError(validateData(newData))
               /\ pendingInit = <<>>
               /\ _data = validateData(newData)
               /\ _value = (IF multiple THEN Arr(10, DataIds(_data))
                            ELSE getValueForData(_data))
               /\ effects = <<triggerChange(_value)>>
       /\ dropdown = Null
       /\ results = Arr(0, <<>>)
       /\ pendingQuery = <<>>
       /\ created = 0
       /\ live = {}
       /\ shown = <<>>
       /\ _events = events
       /\ listeners = onElement \cup {events[i] : i \in 1..Len(events)}
       /\ last = [op |-> "new", arg |-> opts]

N0 == Num(<<"0">>)
Empty == Str(<<>>)

ConstructOptions ==
    {<<Element>>,
     <<Element, <<"value", N1>>>>,
     <<Element, <<"value", N0>>>>,
     <<Element, <<"value", Empty>>, <<"items", ItemsDistinct>>>>,
     <<Element, <<"value", S1>>, <<"items", ItemsDistinct>>>>,
     <<Element, <<"data", Item(N1, TextA)>>>>,
     <<Element, <<"value", N2>>, <<"data", Item(N1, TextA)>>>>,
     <<Element, <<"value", N0>>, <<"data", Item(N1, TextA)>>>>,
     <<Element, <<"value", Null>>, <<"data", Item(S1, TextB)>>>>,
     <<Element, <<"value", N1>>, InitSelection>>}

InitConstruct == (\E opts \in ConstructOptions : ConstructedWith(opts)) /\ ~multiple

SpecConstruct == InitConstruct /\ [][NextValue]_vars

(* An instance with remote results or no source at all, over its life:     *)
(* sessions, searches, well-formed and malformed responses, a change of    *)
(* options, and destroy().                                                  *)
LifeOptions == {<<Element>>, <<Element, Query>>}
LifeResponses ==
    {Response(Arr(0, <<Item(N1, TextA)>>), Bool(TRUE)),
     Response(Str(<<"x">>), Undefined),
     [type |-> "object"],
     Undefined}

InitLife == (\E opts \in LifeOptions : Constructed(opts)) /\ ~multiple

NextLife ==
    \/ open(FALSE)
    \/ close
    \/ \E s \in live : _closed(s)
    \/ search(Str(<<"a">>))
    \/ \E i \in 1..Len(pendingQuery) : \E r \in LifeResponses : queryCallback(i, r)
    \/ \E opts \in {<<>>, <<Query>>} : setOptions(opts)
    \/ destroy

SpecLife == InitLife /\ [][NextLife]_vars

(* Callers and collaborators that keep to the documented types: every      *)
(* value and data passed in, and every resolution delivered, is valid.      *)
ValidValues == {v \in ValueInputs : ~IsError(validateValue(v))}
ValidData == {d \in DataInputs : ~IsError(validateData(d))}

NextResolve ==
    \/ \E d \in ValidData : data(d)
    \/ \E v \in ValidValues : value(v)
    \/ \E i \in 1..Len(pendingInit) : \E d \in ValidData : initSelectionCallback(i, d)

SpecResolve == InitAsync /\ [][NextResolve]_vars

(* Searching while the selection changes, in the multiple mode. *)
FilterOptions ==
    {<<Element, <<"items", ItemsDistinct>>>>,
     <<Element, Query>>}

FilterData ==
    {Null, Arr(0, <<Item(N1, TextA)>>), Arr(0, <<Item(S1, TextB), Item(N1, TextA)>>)}
FilterResponses ==
    {Response(Arr(0, <<Item(N1, TextA)>>), Bool(TRUE)),
     Response(Arr(0, <<N2, Item(S1, TextB)>>), Undefined)}

InitFilter == (\E opts \in FilterOptions : Constructed(opts)) /\ multiple

NextFilter ==
    \/ \E d \in FilterData : data(d)
    \/ open(FALSE)
    \/ search(Str(<<"B">>))
    \/ \E i \in 1..Len(pendingQuery) : \E r \in FilterResponses : queryCallback(i, r)

SpecFilter == InitFilter /\ [][NextFilter]_vars

(* Searching while the options change. *)
OptionInputs ==
    {<<>>,
     <<<<"items", ItemsDistinct>>>>,
     <<<<"items", ItemsBare>>, <<"matcher", CustomMatcher>>>>,
     <<Query>>,
     <<<<"items", Null>>, Query>>,
     <<<<"placeholder", TextA>>, <<"closeOnSelect", Bool(FALSE)>>, <<"showDropdown", N1>>>>,
     <<InitSelection, <<"templates", Null>>>>,
     <<<<"closeOnSelect", N1>>>>,
     <<<<"initSelection", TextA>>>>,
     <<<<"items", TextA>>>>,
     <<<<"items", Arr(0, <<N1, Bool(TRUE)>>)>>>>,
     <<<<"matcher", Null>>>>,
     <<<<"showDropdown", Bool(TRUE)>>, <<"placeholder", N1>>>>,
     <<Query, <<"placeholder", Undefined>>>>,
     <<<<"items", ItemsDistinct>>, <<"query", TextB>>>>}

StartOptions ==
    {<<Element>>,
     <<Element, <<"items", ItemsDistinct>>>>,
     <<Element, Query>>}

InitOptions == (\E opts \in StartOptions : Constructed(opts)) /\ ~multiple

NextOptions ==
    \/ \E opts \in OptionInputs : setOptions(opts)
    \/ \E t \in {Str(<<"a">>), Str(<<"B">>)} : search(t)
    \/ \E i \in 1..Len(pendingQuery) : \E r \in FilterResponses : queryCallback(i, r)

SpecOptions == InitOptions /\ [][NextOptions]_vars

-----------------------------------------------------------------------------
(* Properties. *)

IsCallback == last.op = "initSelectionCallback"

(* the items of data d, null when d is null in the single mode *)
Contents(d) ==
    IF multiple THEN (IF Type(d) = "array" THEN d.elems ELSE <<>>) ELSE d

(* C1: in every settled state (no initSelection resolution in flight) the  *)
(* stored value is the projection of the stored data onto its ids, also    *)
(* when a resolution delivered valid items whose ids differ from the value *)
(* that was set.                                                           *)
C1_ValueIsProjectionOfData ==
    pendingInit = <<>> => ValueIds(_value) = DataIds(_data)

(* C2: the callback of a setValue(A) that a later setValue(B), B # A, has  *)
(* superseded installs nothing and emits no change, whether it fires       *)
(* before or after B's; the callback of the latest call installs the data  *)
(* it resolves to and leaves the value B.                                  *)
C2_SupersededByOtherValueIsDiscarded ==
    [][last'.op = "initSelectionCallback" =>
         /\ (last'.superseded /\ last'.by = "value" /\ ~StrictEq(last'.newValue, _value)) =>
               /\ _data' = _data
               /\ _value' = _value
               /\ effects' = <<>>
         /\ (~last'.superseded /\ ~IsError(validateData(last'.arg))) =>
               /\ StrictEq(_value', last'.newValue)
               /\ _data' = validateData(last'.arg)
               /\ effects' = <<triggerChange(last'.newValue)>>]_vars

(* B's callback fired and installed its data, then A's fired and was dropped *)
C2_Witness ==
    /\ IsCallback /\ last.superseded /\ last.by = "value" /\ ~last.installed
    /\ ~StrictEq(last.newValue, _value)
    /\ pendingInit = <<>>
    /\ Contents(_data) # Contents(Null)
    /\ ValueIds(_value) = DataIds(_data)

(* C3: the resolution of a setValue call is discarded whenever a later     *)
(* setValue or setData call was made before it fires, also when that call  *)
(* set the same id again.                                                  *)
C3_SupersededIsNeverInstalled ==
    ~(IsCallback /\ last.superseded /\ last.installed)

(* a failing setData or setValue aside, what the last call was given *)
SetData == last.op = "data" /\ last.ok
SetValueSync == last.op = "value" /\ last.ok /\ ~last.async

(* C4: in remote mode the callback of an earlier search never replaces the *)
(* result set, nor what the session shows, once a newer search was issued. *)
C4_EarlierSearchNeverReplacesResults ==
    [][(last'.op = "queryCallback" /\ ~last'.latest) =>
          (results' = results /\ shown' = shown)]_vars

(* C5: setData(d) with valid d installs d and makes the value the          *)
(* projection of d onto its ids, whatever is configured and whatever       *)
(* resolution is in flight.                                                *)
C5_SetDataInstallsDataAndProjection ==
    SetData =>
        /\ Contents(_data) = Contents(last.arg)
        /\ ValueIds(_value) = DataIds(validateData(last.arg))

C5_Witness ==
    /\ SetData /\ last.inFlight > 0
    /\ Truthy(items)
    /\ Contents(last.arg) # Contents(Null)
    /\ ValueIds(_value) # ValueIds(pendingInit[1].newValue)

(* the data whose items are all local items and whose ids are those of v *)
LocalDataFor(v) ==
    LET local == {items.elems[i] : i \in 1..Len(items.elems)}
    IN IF multiple
       THEN {d \in [1..Len(v.elems) -> local] : \A i \in 1..Len(v.elems) : d[i].id = v.elems[i]}
       ELSE {d \in local : d.id = v}

DistinctIds(array) ==
    \A i, j \in 1..Len(array.elems) :
        array.elems[i].id = array.elems[j].id => i = j

(* C6 as stated: with local items and no initSelection, setValue of the    *)
(* projection of any data d made of local items yields data equal to d.    *)
C6_RoundTripForAnyLocalItems ==
    (SetValueSync /\ Truthy(items)) =>
        \A d \in LocalDataFor(_value) : Contents(_data) = d

(* C6 as amended: the same when the local items have pairwise distinct     *)
(* ids; in general each id resolves to the first local item that has it.   *)
C6_RoundTripForDistinctLocalIds ==
    (SetValueSync /\ Truthy(items)) =>
        /\ DistinctIds(items) => \A d \in LocalDataFor(_value) : Contents(_data) = d
        /\ \A d \in LocalDataFor(_value) :
              IF multiple
              THEN \A i \in 1..Len(d) :
                      /\ _data.elems[i].id = d[i].id
                      /\ \A k \in 1..Len(items.elems) :
                            items.elems[k] = d[i] =>
                               \E m \in 1..k : items.elems[m] = _data.elems[i]
              ELSE /\ _data.id = d.id
                   /\ \A k \in 1..Len(items.elems) :
                         items.elems[k] = d => \E m \in 1..k : items.elems[m] = _data

C6_Witness ==
    /\ SetValueSync /\ Truthy(items) /\ DistinctIds(items)
    /\ LocalDataFor(_value) # {}
    /\ IF multiple THEN Len(_value.elems) = 2 ELSE Truthy(_value)

(* the ids of the value, and what each resolved to, position by position *)
IdsAt == IF multiple THEN _value.elems ELSE IF Type(_value) = "null" THEN <<>> ELSE <<_value>>
ResolvedAt == IF multiple THEN _data.elems ELSE <<_data>>
IsLocal(id) == \E k \in 1..Len(items.elems) : items.elems[k].id = id
Fabricated(item, id) ==
    /\ Type(item) = "object"
    /\ item.id = id
    /\ Type(item.text) = "string" /\ item.text.s = id.s

C8_OneSessionAndOpenIdempotent ==
    /\ Cardinality(live) <= 1
    /\ Truthy(dropdown) => live = {dropdown}
    /\ (last.op = "open" /\ last.wasOpen) =>
          /\ effects = <<>>
          /\ Truthy(dropdown)

C8_Witness ==
    /\ last.op = "open" /\ last.wasOpen
    /\ created = 1
    /\ live = {Session(1)}

(* C9: once the session has emitted its close notification the instance is *)
(* closed and holds no session, and an open() that is not prevented then   *)
(* emits "opening" and constructs a new session, cycle after cycle.        *)
C9_ReopensAfterClose ==
    /\ last.op = "_closed" => (dropdown = Null /\ live = {})
    /\ (last.op = "open" /\ ~last.wasOpen /\ ~last.prevented) =>
          /\ dropdown = Session(created)
          /\ live = {dropdown}
          /\ Len(effects) >= 2
          /\ effects[1] = Event("select3-opening", NoOptions)
          /\ effects[2] = [e |-> "new Dropdown", session |-> dropdown]

C9_Witness ==
    /\ last.op = "open" /\ ~last.wasOpen /\ ~last.prevented
    /\ created = MaxSessions
    /\ dropdown = Session(MaxSessions)

(* C10: when "opening" is prevented the instance stays closed: no session  *)
(* is constructed, no search is dispatched, query is not invoked and the   *)
(* result set is unchanged.                                                *)
C10_PreventedOpeningStaysClosed ==
    [][(last'.op = "open" /\ last'.prevented /\ ~last'.wasOpen) =>
          /\ dropdown' = Null
          /\ UNCHANGED <<results, pendingQuery, created, live, shown>>
          /\ effects' = <<Event("select3-opening", NoOptions)>>]_vars

C10_Witness ==
    /\ last.op = "open" /\ last.prevented /\ ~last.wasOpen
    /\ results.elems # <<>>
    /\ created > 0

(* the showResults() calls among what the last operation did *)
Forwarded == {i \in 1..Len(effects) : effects[i].e = "showResults"}
QueriesMade == {i \in 1..Len(effects) : effects[i].e = "query"}
ChangesEmitted ==
    {i \in 1..Len(effects) : effects[i].e = "event" /\ effects[i].name = "change"}

(* C11: a query callback that fires after the session it was issued for    *)
(* has closed is forwarded to no session, neither while closed nor to a    *)
(* session opened later.                                                   *)
C11_ResultsAfterCloseAreDropped ==
    (last.op = "queryCallback" /\ Truthy(last.session) /\ last.session \notin live) =>
        Forwarded = {}

(* the local items whose text the configured matcher accepts for term *)
LocalMatches(term) ==
    FilterElems(items.elems,
        {i \in 1..Len(items.elems) :
            CallMatcher(matcher, transformText(term), items.elems[i].text)}, 1)

(* C12: with local items, search(term) sets the result set to the local    *)
(* items, in their order, that the matcher accepts for the transformed     *)
(* term, shows it in the open session with no pagination flag, and does    *)
(* not invoke query even if one is configured.                             *)
C12_LocalSearchFiltersItems ==
    (last.op = "search" /\ Truthy(items)) =>
        /\ results.elems = LocalMatches(last.arg)
        /\ (matcher = DefaultMatcher /\ items.elems = ItemsDistinct.elems) =>
              results.elems = CASE last.arg = Str(<<"a">>) -> <<Item(N1, TextA)>>
                                [] OTHER -> ItemsDistinct.elems
        /\ QueriesMade = {} /\ pendingQuery = <<>>
        /\ IF Truthy(dropdown)
           THEN /\ effects = <<[e |-> "showResults", session |-> dropdown,
                                results |-> results, options |-> [type |-> "object"]]>>
                /\ shown[dropdown].results = results
           ELSE effects = <<>>

C12_Witness ==
    /\ last.op = "search" /\ Truthy(items) /\ Truthy(dropdown)
    /\ Truthy(OptGet(options, "query"))
    /\ results.elems # <<>>

C12_WitnessUpperCase ==
    /\ last.op = "search" /\ last.arg = Str(<<"B">>)
    /\ Truthy(dropdown)
    /\ results.elems = ItemsDistinct.elems

HasKey(opts, key) == \E k \in 1..Len(opts) : opts[k][1] = key

(* C13: options with items null and a query function are accepted, search  *)
(* then invokes query, and a response {results: R, more: m} with R an array *)
(* makes the result set R, each element normalised, with hasMore = !!m.    *)
C13_NullItemsWithQueryAccepted ==
    /\ (last.op = "setOptions" /\ HasKey(last.arg, "items")
          /\ OptGet(last.arg, "items") = Null
          /\ Type(OptGet(last.arg, "query")) = "function") => last.ok
    /\ (last.op = "queryCallback" /\ Type(Prop(last.arg, "results")) = "array"
          /\ last.ok) =>
          /\ results.elems = [k \in 1..Len(last.arg.results.elems) |->
                                 processItem(last.arg.results.elems[k])]
          /\ \A i \in Forwarded :
                effects[i].options.hasMore = Bool(Prop(last.arg, "more") = Bool(TRUE))

(* the type setOptions requires of a recognised key *)
WellTyped(key, val) ==
    CASE key = "closeOnSelect" -> Type(val) = "boolean"
      [] key \in {"initSelection", "matcher", "query"} -> Type(val) = "function"
      [] key = "placeholder" -> Type(val) = "string"
      [] key = "items" ->
            /\ Type(val) = "array"
            /\ \A i \in 1..Len(val.elems) :
                  \/ Type(val.elems[i]) \in {"number", "string"}
                  \/ /\ Type(val.elems[i]) = "object"
                     /\ Type(Prop(val.elems[i], "id")) \in {"number", "string"}
      [] OTHER -> TRUE

C15_ShownResultsExcludeSelection ==
    multiple =>
        LET selected == {_data.elems[k].id : k \in 1..Len(_data.elems)}
            others == {j \in 1..Len(results.elems) : results.elems[j].id \notin selected}
        IN /\ \A i \in Forwarded :
                 /\ \A j \in 1..Len(effects[i].results.elems) :
                       effects[i].results.elems[j].id \notin selected
                 /\ effects[i].results.elems = FilterElems(results.elems, others, 1)
           /\ (last.op = "queryCallback" /\ last.ok) =>
                 results.elems = [k \in 1..Len(last.arg.results.elems) |->
                                     processItem(last.arg.results.elems[k])]
           /\ (last.op = "search" /\ Truthy(items)) =>
                 results.elems = LocalMatches(last.arg)

C15_Witness ==
    /\ multiple
    /\ \E i \in Forwarded :
          /\ Len(effects[i].results.elems) = 1
          /\ Len(results.elems) = 2
          /\ effects[i].results.elems[1] = results.elems[2]

(* C16: every change notification carries the stored value; a successful   *)
(* setData, and a successful setValue without initSelection, emit exactly  *)
(* one; with initSelection setValue emits none when called, one when its   *)
(* resolution is installed and none when it is discarded.                  *)
C16_ChangeCarriesValue ==
    /\ \A i \in ChangesEmitted : StrictEq(effects[i].data.val, _value)
    /\ Cardinality(ChangesEmitted) =
          CASE last.op = "new" -> 1
            [] last.op = "data" -> IF last.ok THEN 1 ELSE 0
            [] last.op = "value" -> IF last.ok /\ ~last.async THEN 1 ELSE 0
            [] last.op = "initSelectionCallback" -> IF last.installed THEN 1 ELSE 0
            [] OTHER -> 0

C16_Witness ==
    /\ IsCallback /\ last.installed
    /\ Truthy(_value)
    /\ Cardinality(ChangesEmitted) = 1

(* C17: close() changes nothing of the instance: closed, it does nothing;  *)
(* open, it only calls the session's close(), and the instance keeps the   *)
(* session until the session's close notification, the only step from      *)
(* open to closed.                                                         *)
C17_CloseOnlyDelegates ==
    [][/\ last'.op = "close" =>
             /\ UNCHANGED <<dropdown, results, pendingQuery, created, live, shown>>
             /\ effects' = IF Truthy(dropdown)
                           THEN <<[e |-> "dropdown.close", session |-> dropdown]>>
                           ELSE <<>>
       /\ (Truthy(dropdown) /\ ~Truthy(dropdown')) => last'.op = "_closed"]_vars

C17_Witness ==
    /\ last.op = "close" /\ last.wasOpen
    /\ Truthy(dropdown) /\ live = {dropdown}

(* C18: a successful open() emits "opening", constructs the session, then  *)
(* searches for '': with local items the new session has been shown the    *)
(* items matching '' once, in remote mode one query for '' has been made    *)
(* once the session exists.                                                *)
C18_OpenThenSessionThenSearch ==
    (last.op = "open" /\ ~last.wasOpen /\ ~last.prevented) =>
        /\ Len(effects) >= 2
        /\ effects[1] = Event("select3-opening", NoOptions)
        /\ effects[2] = [e |-> "new Dropdown", session |-> dropdown]
        /\ IF Truthy(items)
           THEN /\ Len(effects) = 3
                /\ effects[3] = [e |-> "showResults", session |-> dropdown,
                                 results |-> Arr(0, LocalMatches(Str(<<>>))),
                                 options |-> [type |-> "object"]]
                /\ matcher = DefaultMatcher => effects[3].results = items
           ELSE IF Truthy(OptGet(options, "query"))
           THEN /\ Len(effects) = 3
                /\ effects[3] = [e |-> "query", term |-> Str(<<>>), offset |-> 0]
                /\ pendingQuery[Len(pendingQuery)].session = dropdown
           ELSE Len(effects) = 2

C18_Witness ==
    /\ last.op = "open" /\ ~last.wasOpen /\ ~last.prevented
    /\ Truthy(items)
    /\ Len(shown[dropdown].results.elems) = 2

C18_WitnessRemote ==
    /\ last.op = "open" /\ ~last.wasOpen /\ ~last.prevented
    /\ ~Truthy(items) /\ QueriesMade = {3}

(* C19: search follows the current configuration: it filters locally if    *)
(* and only if the options set last have items, and otherwise invokes the  *)
(* query of those options; items of earlier options are not used. Stated   *)
(* for current options that setOptions accepted.                           *)
C19_SearchFollowsCurrentOptions ==
    (/\ last.op = "search"
     /\ \A k \in 1..Len(options) : WellTyped(options[k][1], options[k][2])) =>
        IF Truthy(OptGet(options, "items"))
        THEN QueriesMade = {} /\ Truthy(items) /\ results.elems = LocalMatches(last.arg)
        ELSE IF Truthy(OptGet(options, "query"))
        THEN Cardinality(QueriesMade) = 1
        ELSE effects = <<>>

(* C20: in remote mode search(term) invokes query once, with the term as   *)
(* given and offset 0; only the term handed to the matcher is transformed. *)
C20_QueryGetsRawTerm ==
    last.op = "search" =>
        IF ~Truthy(items)
        THEN Truthy(OptGet(options, "query")) =>
                /\ effects = <<[e |-> "query", term |-> last.arg, offset |-> 0]>>
                /\ pendingQuery[Len(pendingQuery)].term = last.arg
        ELSE matcher = CustomMatcher =>
                LET lower == IF last.arg = Str(<<"B">>) THEN Str(<<"b">>) ELSE last.arg
                    same == {i \in 1..Len(items.elems) : items.elems[i].text = lower}
                IN results.elems = FilterElems(items.elems, same, 1)

C20_Witness ==
    /\ last.op = "search" /\ last.arg = Str(<<"B">>)
    /\ ~Truthy(items)
    /\ QueriesMade = {1}

C20_WitnessLocal ==
    /\ last.op = "search" /\ last.arg = Str(<<"B">>)
    /\ Truthy(items) /\ matcher = CustomMatcher
    /\ results.elems = <<Item(S1, TextB)>>

(* a response the callback rejects: none, one without results, or one    *)
(* whose results is not an array                                           *)
Malformed(response) ==
    \/ Type(response) \in {"null", "undefined"}
    \/ Type(Prop(response, "results")) # "array"

(* C21: a query callback invoked with no response, with a response that    *)
(* has no results, or with results that is not an array, throws, and       *)
(* leaves the result set, what the session shows (hasMore included), the   *)
(* session state and value/data as they were.                              *)
C21_MalformedResponseThrowsAndKeepsState ==
    [][(last'.op = "queryCallback" /\ Malformed(last'.arg)) =>
          /\ Len(effects') = 1 /\ effects'[1].e = "throw"
          /\ ~last'.ok
          /\ UNCHANGED <<results, shown, dropdown, live, created, _value, _data>>]_vars

C21_Witness ==
    /\ last.op = "queryCallback" /\ Malformed(last.arg)
    /\ Truthy(dropdown)
    /\ results.elems # <<>>
    /\ shown[dropdown].options = [type |-> "object", hasMore |-> Bool(TRUE)]

Unconfigured == ~Truthy(items) /\ ~Truthy(OptGet(options, "query"))

(* C22: with neither items nor query configured search(term) does          *)
(* nothing: no error, the result set, what an open session shows, value,   *)
(* data and the session state stay as they were; open() still creates the  *)
(* session.                                                                *)
C22_UnconfiguredSearchIsNoOp ==
    [][/\ (last'.op = "search" /\ Unconfigured) =>
             /\ effects' = <<>>
             /\ UNCHANGED <<results, shown, dropdown, live, created, pendingQuery,
                            _value, _data, options, items, matcher>>
       /\ (last'.op = "open" /\ ~last'.wasOpen /\ ~last'.prevented /\ Unconfigured) =>
             /\ Truthy(dropdown') /\ dropdown' \in live'
             /\ effects' = <<Event("select3-opening", NoOptions),
                             [e |-> "new Dropdown", session |-> dropdown']>>]_vars

C22_Witness ==
    /\ last.op = "search" /\ Unconfigured
    /\ Truthy(dropdown)
    /\ results.elems # <<>>
    /\ shown[dropdown].results.elems # <<>>

C22_WitnessOpen ==
    /\ last.op = "open" /\ ~last.wasOpen /\ Unconfigured
    /\ Truthy(dropdown)

(* C23: after destroy(), in any state, none of the instance's listeners is *)
(* left on the element, the one for the session's close notification       *)
(* included, and the instance holds no session; a second destroy() does    *)
(* not fail.                                                               *)
C23_DestroyDetachesAndClearsSession ==
    last.op = "destroy" =>
        /\ listeners = {}
        /\ _events = <<>>
        /\ ~Truthy(dropdown)
        /\ effects = <<>>

(* C24: constructed with an initial value that is a valid id, 0 and the    *)
(* empty string included, and no initSelection, the instance holds that    *)
(* value; the initial data is used only when no initial value is given.    *)
C24_InitialValueIsSet ==
    (last.op = "new" /\ ~Truthy(OptGet(options, "initSelection"))) =>
        LET v == OptGet(last.arg, "value")
            d == OptGet(last.arg, "data")
        IN IF HasKey(last.arg, "value") /\ Type(v) \in {"number", "string"}
           THEN StrictEq(_value, v)
           ELSE (Type(v) = "undefined" /\ Type(d) = "object") => _data = d

(* C25: a setOptions call that fails validation leaves the stored options, *)
(* the local items and the matcher as they were before the call.           *)
C25_FailedSetOptionsKeepsConfiguration ==
    [][(last'.op = "setOptions" /\ ~last'.ok) =>
          UNCHANGED <<options, items, matcher>>]_vars

====
